---- MODULE Spec2Model ----
(***************************************************************************)
(* Extended-attribute accessors (get/set/remove/list by handle and by      *)
(* path), the growable-buffer retry primitive they run on, and the XAttrs  *)
(* attribute-name iterator of src/sys/linux_macos.rs.                      *)
(***************************************************************************)
EXTENDS Integers, Sequences, FiniteSets, TLC

\* ------------------------------------------------------------------ bounds
\* Largest attribute value the kernel stores (XATTR_SIZE_MAX, scaled down).
XattrSizeMax == 8
\* Most names packed in one name list handed to an iterator.
MaxSegs == 2
\* Most bytes an iterator buffer may hold (caps the growth clone_from causes).
MaxData == 6
\* History counters stop counting here.
MaxCount == 7

\* The terminator byte of the packed name list.
NUL == 0

\* The retry primitive's hard ceiling on buffer capacity.  It admits the
\* largest value the kernel stores, the exact-fit retry included.
Ceiling == 2 * XattrSizeMax
\* A mock sizing operation may report sizes past the ceiling.
MockMax == Ceiling + 1

Min(a, b) == IF a < b THEN a ELSE b
Bump(n) == Min(n + 1, MaxCount)

\* ------------------------------------------------------------------ data
Modes == {"fd", "path"}
Platforms == {"linux", "macos"}

NameA == <<1>>
NameB == <<2, 2>>
AttrNames == {NameA, NameB}

Rep(n, b) == [i \in 1..n |-> b]
\* Opaque byte blobs, zero bytes included.
Values(maxlen) == {Rep(n, b) : n \in 0..maxlen, b \in {0, 1}}

\* No value: a marker no byte string equals.
Absent == <<-1>>

\* The file's attributes in kernel order: a sequence of [name, value].
Has(st, name) == \E i \in 1..Len(st) : st[i].name = name
IndexOf(st, name) == CHOOSE i \in 1..Len(st) : st[i].name = name
Lookup(st, name) == st[IndexOf(st, name)].value
Put(st, name, value) ==
    IF Has(st, name)
    THEN [st EXCEPT ![IndexOf(st, name)].value = value]
    ELSE Append(st, [name |-> name, value |-> value])
Del(st, name) == SelectSeq(st, LAMBDA e : e.name # name)

RECURSIVE Pack(_)
\* The packed name list: every name followed by its terminator.
Pack(names) ==
    IF names = <<>> THEN <<>>
    ELSE Head(names) \o <<NUL>> \o Pack(Tail(names))

NamesOf(st) == [i \in 1..Len(st) |-> st[i].name]

\* ------------------------------------------------------------- OS calls
\* What one call of the sizing operation reports.
SysOk(n, bytes) == [ok |-> TRUE, size |-> n, bytes |-> bytes, err |-> "none"]
SysErr(e) == [ok |-> FALSE, size |-> 0, bytes |-> <<>>, err |-> e]

\* Reading `content` into a buffer of capacity cap: a zero-length buffer asks
\* for the size, a short one is refused with ERANGE.
ReadInto(content, cap) ==
    IF cap = 0 THEN SysOk(Len(content), <<>>)
    ELSE IF Len(content) > cap THEN SysErr("ERANGE")
    ELSE SysOk(Len(content), content)

fgetxattr(st, name, cap) ==
    IF ~Has(st, name) THEN SysErr("ENODATA") ELSE ReadInto(Lookup(st, name), cap)

\* macOS refuses an empty buffer (the comment at the call site).
lgetxattr(plat, st, name, cap) ==
    IF plat = "macos" /\ cap = 0 THEN SysErr("EMPTYBUF")
    ELSE IF ~Has(st, name) THEN SysErr("ENODATA")
    ELSE ReadInto(Lookup(st, name), cap)

\* libc::getxattr(path, name, NULL, 0, 0, XATTR_NOFOLLOW): the size only.
libc_getxattr_size(st, name) ==
    IF ~Has(st, name) THEN SysErr("ENODATA")
    ELSE SysOk(Len(Lookup(st, name)), <<>>)

flistxattr(st, cap) == ReadInto(Pack(NamesOf(st)), cap)
llistxattr(st, cap) == ReadInto(Pack(NamesOf(st)), cap)

\* setxattr with its flags: none is create-or-replace.
setxattr(st, name, value, flags) ==
    IF flags = "CREATE" /\ Has(st, name)
    THEN [ok |-> FALSE, err |-> "EEXIST", st |-> st]
    ELSE IF flags = "REPLACE" /\ ~Has(st, name)
    THEN [ok |-> FALSE, err |-> "ENODATA", st |-> st]
    ELSE [ok |-> TRUE, err |-> "none", st |-> Put(st, name, value)]

removexattr(st, name) ==
    IF Has(st, name)
    THEN [ok |-> TRUE, err |-> "none", st |-> Del(st, name)]
    ELSE [ok |-> FALSE, err |-> "ENODATA", st |-> st]

\* --------------------------------------------------- the retry primitive
\* The buffer handed to the operation: cap zero bytes, overwritten by what
\* the operation wrote.
Filled(cap, bytes) == [i \in 1..cap |-> IF i <= Len(bytes) THEN bytes[i] ELSE 0]
Truncate(buf, n) == SubSeq(buf, 1, n)

Double(cap) == IF cap = 0 THEN 1 ELSE 2 * cap

LoopOk(val, n) == [done |-> TRUE, cap |-> 0, ok |-> TRUE, err |-> "none", val |-> val, size |-> n]
LoopErr(e) == [done |-> TRUE, cap |-> 0, ok |-> FALSE, err |-> e, val |-> <<>>, size |-> 0]
LoopRetry(cap) == [done |-> FALSE, cap |-> cap, ok |-> FALSE, err |-> "none", val |-> <<>>, size |-> 0]

\* Grow to capacity `want`, unless that exceeds the ceiling.
Grow(want) == IF want > Ceiling THEN LoopErr("CouldNotSize") ELSE LoopRetry(want)

\* One turn of the loop: the operation was called with a buffer of capacity
\* cap and reported r.
allocate_loop_step(cap, r) ==
    IF ~r.ok
    THEN IF r.err = "ERANGE" THEN Grow(Double(cap)) ELSE LoopErr(r.err)
    ELSE IF cap = 0
         THEN IF r.size = 0 THEN LoopOk(<<>>, 0) ELSE Grow(r.size)
         ELSE IF r.size < cap
              THEN LoopOk(Truncate(Filled(cap, r.bytes), r.size), r.size)
              ELSE Grow(Double(cap))

\* ----------------------------------------------------------- accessors
\* The closures the accessors hand to the retry primitive.
\* Mutant: an absent attribute reads as an empty value.
get_fd_op_default(st, name, cap) ==
    IF ~Has(st, name) THEN SysOk(0, <<>>) ELSE fgetxattr(st, name, cap)

\* Mutant: a refused buffer is reported as zero bytes written.
get_fd_op_swallow(st, name, cap) ==
    LET r == fgetxattr(st, name, cap)
    IN  IF ~r.ok /\ r.err = "ERANGE" THEN SysOk(0, <<>>) ELSE r

get_fd_op(st, name, cap) == fgetxattr(st, name, cap)

\* Mutant: the closure reports the buffer's length, not the call's size.
get_path_op_buflen(plat, st, name, cap) ==
    LET r == lgetxattr("linux", st, name, cap)
    IN  IF r.ok THEN SysOk(cap, r.bytes) ELSE r

get_path_op(plat, st, name, cap) ==
    IF plat = "macos" /\ cap = 0
    THEN libc_getxattr_size(st, name)
    ELSE lgetxattr(plat, st, name, cap)

list_fd_op(st, cap) == flistxattr(st, cap)
list_path_op(st, cap) == llistxattr(st, cap)

\* Mutant: the call passes XATTR_CREATE.
set_fd_create(st, name, value) == setxattr(st, name, value, "CREATE")

set_fd(st, name, value) == setxattr(st, name, value, "empty")
set_path(st, name, value) == setxattr(st, name, value, "empty")
remove_fd(st, name) == removexattr(st, name)
remove_path(st, name) == removexattr(st, name)

\* The iterator list_fd / list_path wrap the fetched buffer in.
\* Mutant: the cursor starts one byte in.
XAttrsNew_skip(vec) == [data |-> vec, offset |-> Min(1, Len(vec))]

XAttrsNew(vec) == [data |-> vec, offset |-> 0]

\* ------------------------------------------------------------ XAttrs
Slots == {"a", "b"}

None == [some |-> FALSE, name |-> <<>>]
Some(name) == [some |-> TRUE, name |-> name]

\* data.iter().position(|&b| b == 0u8): the 0-based index of the first
\* terminator, -1 when there is none.
Position(bytes) ==
    IF \E i \in 1..Len(bytes) : bytes[i] = NUL
    THEN (CHOOSE i \in 1..Len(bytes) :
             bytes[i] = NUL /\ \A j \in 1..(i - 1) : bytes[j] # NUL) - 1
    ELSE -1

\* next(): the item, the iterator afterwards, and whether the call panicked
\* (slice start past the end, or unwrap of a missing terminator).
\* Mutant: the cursor moves two past the terminator.
XAttrs_next_skip(x) ==
    LET data == SubSeq(x.data, x.offset + 1, Len(x.data))
        end == Position(data)
    IN  IF data = <<>> \/ end < 0
        THEN [item |-> None, x |-> x, panic |-> FALSE]
        ELSE [item |-> Some(SubSeq(data, 1, end)),
              x |-> [x EXCEPT !.offset = x.offset + end + 2],
              panic |-> FALSE]

\* Mutant: the name keeps its terminator.
XAttrs_next_keep(x) ==
    LET data == SubSeq(x.data, x.offset + 1, Len(x.data))
        end == Position(data)
    IN  IF data = <<>> \/ end < 0
        THEN [item |-> None, x |-> x, panic |-> FALSE]
        ELSE [item |-> Some(SubSeq(data, 1, end + 1)),
              x |-> [x EXCEPT !.offset = x.offset + end + 1],
              panic |-> FALSE]

XAttrs_next(x) ==
    IF x.offset > Len(x.data)
    THEN [item |-> None, x |-> x, panic |-> TRUE]
    ELSE LET data == SubSeq(x.data, x.offset + 1, Len(x.data))
             end == Position(data)
         IN  IF data = <<>>
             THEN [item |-> None, x |-> x, panic |-> FALSE]
             ELSE IF end < 0
             THEN [item |-> None, x |-> x, panic |-> TRUE]
             ELSE [item |-> Some(SubSeq(data, 1, end)),
                   x |-> [x EXCEPT !.offset = x.offset + end + 1],
                   panic |-> FALSE]

\* (0, Some(0)) is <<0, <<0>>>>, (1, None) is <<1, <<>>>>.
\* Mutant: the hint looks at the buffer, not at the cursor.
XAttrs_size_hint_len(x) ==
    IF Len(x.data) = 0 THEN <<0, <<0>>>> ELSE <<1, <<>>>>

XAttrs_size_hint(x) ==
    IF Len(x.data) = x.offset THEN <<0, <<0>>>> ELSE <<1, <<>>>>

\* Mutant: the clone starts over.
XAttrs_clone_rewind(self) == [data |-> self.data, offset |-> 0]

XAttrs_clone(self) == [data |-> self.data, offset |-> self.offset]

\* mem::replace takes self's old bytes as the Vec that other's bytes are
\* then appended to.
XAttrs_clone_from(self, other) ==
    [data |-> self.data \o other.data, offset |-> other.offset]

RECURSIVE Drain(_, _)
\* The names an iterator yields when run to exhaustion (fuel bounds the run).
Drain(x, fuel) ==
    LET r == XAttrs_next(x)
    IN  IF fuel = 0 \/ r.panic \/ ~r.item.some THEN <<>>
        ELSE <<r.item.name>> \o Drain(r.x, fuel - 1)

\* ------------------------------------------------------------------ state
VARIABLES
    platform,   \* the build target
    store,      \* the file's attributes, in kernel order
    shadow,     \* history: what each name was last set to, or Absent
    call,       \* the get/list call in flight, with the retry loop's capacity
    ret,        \* the result of the accessor call that just returned
    xs,         \* the XAttrs iterators held by the caller
    expect,     \* history: the names each iterator has still to yield
    pure,       \* history: the iterator does not descend from a clone_from
    cloned,     \* history: the iterator is a clone or has been cloned
    lastOp,     \* history: the iterator operation that just ran
    panicked    \* an iterator call panicked

vars == <<platform, store, shadow, call, ret, xs, expect, pure, cloned, lastOp, panicked>>
accVars == <<platform, store, shadow, call, ret>>
iterVars == <<xs, expect, pure, cloned, lastOp, panicked>>

Idle == [op |-> "none", mode |-> "fd", name |-> <<>>, cap |-> 0,
         calls |-> 0, incs |-> 0, prev |-> -1, big |-> FALSE, full |-> TRUE]
NoRet == [op |-> "none", mode |-> "fd", name |-> <<>>, ok |-> FALSE, err |-> "none",
          val |-> <<>>, size |-> 0, iter |-> XAttrsNew(<<>>), had |-> FALSE,
          calls |-> 0, incs |-> 0, big |-> FALSE, full |-> TRUE]
Fresh == XAttrsNew(<<>>)
NoOp == [kind |-> "none", slot |-> "a", src |-> "a", pre |-> Fresh,
         item |-> None, want |-> None, hint |-> <<0, <<0>>>>, frame |-> TRUE]

InitIter ==
    /\ xs = [i \in Slots |-> Fresh]
    /\ expect = [i \in Slots |-> <<>>]
    /\ pure = [i \in Slots |-> TRUE]
    /\ cloned = [i \in Slots |-> FALSE]
    /\ lastOp = NoOp
    /\ panicked = FALSE

InitAcc ==
    /\ platform \in Platforms
    /\ store = <<>>
    /\ shadow = [n \in AttrNames |-> Absent]
    /\ call = Idle
    /\ ret = NoRet

Init == InitAcc /\ InitIter

\* ------------------------------------------------------- accessor actions
SetResult(mode, name, r) ==
    [NoRet EXCEPT !.op = "set", !.mode = mode, !.name = name, !.ok = r.ok, !.err = r.err,
                  !.had = (shadow[name] # Absent)]

Set(mode, name, value) ==
    /\ call.op = "none"
    /\ LET r == IF mode = "fd" THEN set_fd(store, name, value)
                ELSE set_path(store, name, value)
       IN  /\ store' = r.st
           /\ ret' = SetResult(mode, name, r)
    /\ shadow' = [shadow EXCEPT ![name] = value]
    /\ UNCHANGED <<platform, call>>
    /\ UNCHANGED iterVars

Remove(mode, name) ==
    /\ call.op = "none"
    /\ LET r == IF mode = "fd" THEN remove_fd(store, name)
                ELSE remove_path(store, name)
       IN  /\ store' = r.st
           /\ ret' = [NoRet EXCEPT !.op = "remove", !.mode = mode, !.name = name,
                                   !.ok = r.ok, !.err = r.err,
                                   !.had = (shadow[name] # Absent)]
    /\ shadow' = [shadow EXCEPT ![name] = Absent]
    /\ UNCHANGED <<platform, call>>
    /\ UNCHANGED iterVars

GetBegin(mode, name) ==
    /\ call.op = "none"
    /\ call' = [Idle EXCEPT !.op = "get", !.mode = mode, !.name = name]
    /\ ret' = NoRet
    /\ UNCHANGED <<platform, store, shadow>>
    /\ UNCHANGED iterVars

ListBegin(mode) ==
    /\ call.op = "none"
    /\ call' = [Idle EXCEPT !.op = "list", !.mode = mode]
    /\ ret' = NoRet
    /\ UNCHANGED <<platform, store, shadow>>
    /\ UNCHANGED iterVars

\* What the closure of the call in flight reports for a buffer of capacity cap.
CallOp(c, plat, st) ==
    IF c.op = "get"
    THEN IF c.mode = "fd" THEN get_fd_op(st, c.name, c.cap)
         ELSE get_path_op(plat, st, c.name, c.cap)
    ELSE IF c.mode = "fd" THEN list_fd_op(st, c.cap)
         ELSE list_path_op(st, c.cap)

\* History: the size of what the call in flight reads, -1 when it is absent.
ContentSize(c, st) ==
    IF c.op = "get"
    THEN IF Has(st, c.name) THEN Len(Lookup(st, c.name)) ELSE -1
    ELSE Len(Pack(NamesOf(st)))

\* The retry loop calls the operation once and acts on what it reports.
Step ==
    /\ call.op # "none"
    /\ LET r == CallOp(call, platform, store)
           s == allocate_loop_step(call.cap, r)
           sz == ContentSize(call, store)
           calls == Bump(call.calls)
           incs == IF call.calls > 0 /\ sz > call.prev THEN Bump(call.incs) ELSE call.incs
           big == call.big \/ 2 * sz > Ceiling
           full == call.full /\ sz >= call.cap /\ sz > 0
       IN  IF s.done
           THEN /\ call' = Idle
                /\ ret' = [op |-> call.op, mode |-> call.mode, name |-> call.name,
                           ok |-> s.ok, err |-> s.err, val |-> s.val, size |-> s.size,
                           iter |-> IF call.op = "list" /\ s.ok
                                    THEN XAttrsNew(s.val) ELSE Fresh,
                           had |-> (sz >= 0),
                           calls |-> calls, incs |-> incs, big |-> big, full |-> full]
           ELSE /\ call' = [call EXCEPT !.cap = s.cap, !.calls = calls, !.incs = incs,
                                        !.prev = sz, !.big = big, !.full = full]
                /\ ret' = ret
    /\ UNCHANGED <<platform, store, shadow>>
    /\ UNCHANGED iterVars

\* Another process rewrites or removes the attribute while a call is in flight.
External(name, value) ==
    /\ call.op # "none"
    /\ store' = IF value = Absent THEN Del(store, name) ELSE Put(store, name, value)
    /\ shadow' = [shadow EXCEPT ![name] = value]
    /\ store' # store
    /\ UNCHANGED <<platform, call, ret>>
    /\ UNCHANGED iterVars

Next ==
    \/ \E m \in Modes, n \in AttrNames, v \in Values(XattrSizeMax) : Set(m, n, v)
    \/ \E m \in Modes, n \in AttrNames : Remove(m, n)
    \/ \E m \in Modes, n \in AttrNames : GetBegin(m, n)
    \/ \E m \in Modes : ListBegin(m)
    \/ Step

Spec == Init /\ [][Next]_vars

\* The retry primitive against a sizing operation another process keeps
\* changing, sizes past the ceiling included.
NextRetry ==
    \/ \E m \in Modes : GetBegin(m, NameA)
    \/ Step
    \/ \E v \in Values(MockMax) \cup {Absent} : External(NameA, v)

SpecRetry == Init /\ [][NextRetry]_vars

\* ------------------------------------------------------- iterator actions
\* Names a packed list may hold; the empty name is a legal segment.
IterNames == {<<>>, <<1, 2>>}
NameLists == UNION {[1..n -> IterNames] : n \in 0..MaxSegs}

\* History: whether an operation on slot i left every other iterator alone.
Framed(i, after) == \A j \in Slots \ {i} : after[j] = xs[j]

\* list_fd / list_path hand the caller an iterator over the fetched list.
ListInto(i, names) ==
    /\ xs' = [xs EXCEPT ![i] = XAttrsNew(Pack(names))]
    /\ expect' = [expect EXCEPT ![i] = names]
    /\ pure' = [pure EXCEPT ![i] = TRUE]
    /\ cloned' = [cloned EXCEPT ![i] = FALSE]
    /\ lastOp' = [NoOp EXCEPT !.kind = "list", !.slot = i, !.src = i]
    /\ UNCHANGED panicked
    /\ UNCHANGED accVars

IterNext(i) ==
    /\ LET r == XAttrs_next(xs[i])
           after == [xs EXCEPT ![i] = r.x]
       IN  /\ xs' = after
           /\ panicked' = (panicked \/ r.panic)
           /\ lastOp' = [kind |-> "next", slot |-> i, src |-> i, pre |-> xs[i],
                         item |-> r.item,
                         want |-> IF expect[i] = <<>> THEN None ELSE Some(Head(expect[i])),
                         hint |-> XAttrs_size_hint(xs[i]),
                         frame |-> Framed(i, after)]
    /\ expect' = [expect EXCEPT ![i] = IF @ = <<>> THEN <<>> ELSE Tail(@)]
    /\ UNCHANGED <<pure, cloned>>
    /\ UNCHANGED accVars

\* dst = src.clone()
IterClone(dst, src) ==
    /\ dst # src
    /\ LET after == [xs EXCEPT ![dst] = XAttrs_clone(xs[src])]
       IN  /\ xs' = after
           /\ lastOp' = [NoOp EXCEPT !.kind = "clone", !.slot = dst, !.src = src,
                                     !.pre = xs[src], !.frame = Framed(dst, after)]
    /\ expect' = [expect EXCEPT ![dst] = expect[src]]
    /\ pure' = [pure EXCEPT ![dst] = pure[src]]
    /\ cloned' = [i \in Slots |-> pure[src]]
    /\ UNCHANGED panicked
    /\ UNCHANGED accVars

\* dst.clone_from(&src)
IterCloneFrom(dst, src) ==
    /\ dst # src
    /\ Len(xs[dst].data) + Len(xs[src].data) <= MaxData
    /\ LET after == [xs EXCEPT ![dst] = XAttrs_clone_from(xs[dst], xs[src])]
       IN  /\ xs' = after
           /\ lastOp' = [NoOp EXCEPT !.kind = "clone_from", !.slot = dst, !.src = src,
                                     !.pre = xs[src], !.frame = Framed(dst, after)]
    \* the names dst should now hold are src's; the history stops following
    \* an iterator once clone_from has rebuilt its buffer
    /\ expect' = [expect EXCEPT ![dst] = <<>>]
    /\ pure' = [pure EXCEPT ![dst] = FALSE]
    /\ cloned' = [cloned EXCEPT ![dst] = FALSE]
    /\ UNCHANGED panicked
    /\ UNCHANGED accVars

NextIter ==
    \/ \E i \in Slots, names \in NameLists : ListInto(i, names)
    \/ \E i \in Slots : IterNext(i)
    \/ \E i, j \in Slots : IterClone(i, j)
    \/ \E i, j \in Slots : IterCloneFrom(i, j)

\* The iterator does not depend on the build target.
InitOnLinux == Init /\ platform = "linux"

SpecIter == InitOnLinux /\ [][NextIter]_vars

\* ------------------------------------------------------------ properties
Present == {n \in AttrNames : shadow[n] # Absent}
Range(seq) == {seq[i] : i \in 1..Len(seq)}

\* The file holds exactly what the history of set, remove and outside
\* writes says it holds.
StoreMatchesShadow ==
    \A n \in AttrNames :
        IF shadow[n] = Absent THEN ~Has(store, n)
        ELSE Has(store, n) /\ Lookup(store, n) = shadow[n]

\* C2: set always succeeds, whether or not the name existed (create or
\* replace), and a get of a name that was set returns exactly the bytes of
\* the latest set, in handle mode and in path mode.
C2_SetThenGet ==
    /\ ret.op = "set" => ret.ok /\ StoreMatchesShadow
    /\ (ret.op = "get" /\ shadow[ret.name] # Absent) =>
           /\ ret.ok
           /\ ret.val = shadow[ret.name]

\* A get in path mode on macOS returned a value holding zero bytes.
C2_Witness ==
    /\ ret.op = "get" /\ ret.ok /\ ret.mode = "path" /\ platform = "macos"
    /\ ret.val = Rep(2, 0)
    /\ Len(store) = 2

\* C3: a list run to exhaustion yields exactly the names now present, each
\* once; with no attributes it yields nothing.
C3_ListYieldsPresent ==
    ret.op = "list" =>
        /\ ret.ok
        /\ LET names == Drain(ret.iter, Len(ret.iter.data) + 1)
           IN  /\ Range(names) = Present
               /\ Len(names) = Cardinality(Present)

\* A list returned while the file held two attributes.
C3_Witness ==
    /\ ret.op = "list" /\ ret.ok
    /\ Cardinality(Present) = 2
    /\ Len(Drain(ret.iter, Len(ret.iter.data) + 1)) = 2

\* C4: get and remove of an absent name fail with NotFound, return no value,
\* and leave the attributes as they were.
C4_AbsentIsNotFound ==
    /\ (ret.op = "get" /\ shadow[ret.name] = Absent) =>
           /\ ~ret.ok /\ ret.err = "ENODATA" /\ ret.val = <<>>
           /\ StoreMatchesShadow
    /\ (ret.op = "remove" /\ ~ret.had) =>
           /\ ~ret.ok /\ ret.err = "ENODATA"
           /\ StoreMatchesShadow
    /\ (ret.op = "remove" /\ ret.had) => ret.ok /\ StoreMatchesShadow

\* A get failed with NotFound on a file that holds another attribute.
C4_Witness ==
    /\ ret.op = "get" /\ ~ret.ok /\ ret.err = "ENODATA"
    /\ Len(store) = 1

RECURSIVE Log2(_)
Log2(n) == IF n <= 1 THEN 0 ELSE 1 + Log2(n \div 2)
\* The probe, the first sized buffer, and one call per doubling.
MaxCalls == 2 + Log2(Ceiling)

InFlight == call.op # "none"

\* C6: the retry primitive cannot run on for ever: a call still in flight
\* has made fewer than MaxCalls calls of the operation and holds a buffer
\* no larger than the ceiling; and when no call stabilised (each was refused
\* or filled the whole buffer) it fails with the bounded-growth error.
C6_RetryTerminates ==
    /\ call.cap <= Ceiling
    /\ InFlight => call.calls < MaxCalls
    /\ ret.calls <= MaxCalls
    /\ (ret.op = "get" /\ ret.full) => ~ret.ok /\ ret.err = "CouldNotSize"

\* A get gave up after doubling up to the ceiling.
C6_Witness ==
    /\ ret.op = "get" /\ ret.full /\ ret.err = "CouldNotSize"
    /\ ret.calls = MaxCalls

\* C7: when the value changes under the call and then holds still, get
\* returns the value of the last call, whole and cut to the reported count;
\* it reaches the bounded-growth error only for sizes the ceiling rules out.
C7_ConvergesToFinalValue ==
    ret.op = "get" =>
        /\ ret.ok =>
              /\ Has(store, ret.name)
              /\ ret.val = Lookup(store, ret.name)
              /\ ret.size = Len(ret.val)
        /\ ~ret.big => ret.err # "CouldNotSize"
        /\ (~ret.big /\ ret.had) => ret.ok

\* The size grew over the first five calls of a path-mode get and then held.
C7_Witness ==
    /\ ret.op = "get" /\ ret.mode = "path" /\ ret.ok /\ ~ret.big
    /\ ret.calls = 6 /\ ret.incs = 4
    /\ Len(ret.val) = XattrSizeMax

\* -------------------------------------------------- iterator properties
Exhausted(x) == x.offset = Len(x.data)
Zero == <<0, <<0>>>>
AtLeastOne == <<1, <<>>>>
NulCount(x) == Cardinality({k \in (x.offset + 1)..Len(x.data) : x.data[k] = NUL})

\* C1: after a = b.clone() and after a.clone_from(&b), a holds b's bytes and
\* b's offset, whatever a held before.
C1_CloneCopies ==
    lastOp.kind \in {"clone", "clone_from"} =>
        /\ xs[lastOp.slot].data = xs[lastOp.src].data
        /\ xs[lastOp.slot].offset = xs[lastOp.src].offset

\* C5: a clone holds the original's bytes and cursor and leaves the original
\* alone; from then on each of the two yields the names that remained when
\* the clone was made, and a next() on one does not touch the other.
C5_ClonesIndependent ==
    /\ lastOp.kind = "clone" =>
           /\ xs[lastOp.slot] = lastOp.pre
           /\ xs[lastOp.src] = lastOp.pre
           /\ lastOp.frame
    /\ \A i \in Slots : cloned[i] =>
           Drain(xs[i], Len(xs[i].data) + 1) = expect[i]
    /\ (lastOp.kind = "next" /\ cloned[lastOp.slot]) =>
           /\ lastOp.item = lastOp.want
           /\ lastOp.frame

\* A clone made mid-sequence was advanced past where the original stands.
C5_Witness ==
    /\ lastOp.kind = "next" /\ cloned[lastOp.slot] /\ lastOp.item.some
    /\ lastOp.pre.offset > 0
    /\ \E j \in Slots : cloned[j] /\ xs[j].offset = lastOp.pre.offset
                        /\ xs[j].data = xs[lastOp.slot].data

\* C8: size_hint is (0, Some(0)) exactly at offset = len and (1, None)
\* otherwise, and it agrees with the next() that follows: (0, Some(0)) iff
\* that next() returns None.
C8_SizeHintAgrees ==
    /\ \A i \in Slots :
           /\ XAttrs_size_hint(xs[i]) = Zero <=> Exhausted(xs[i])
           /\ XAttrs_size_hint(xs[i]) = AtLeastOne <=> ~Exhausted(xs[i])
    /\ lastOp.kind = "next" =>
           /\ lastOp.hint = Zero <=> ~lastOp.item.some
           /\ lastOp.hint = AtLeastOne <=> lastOp.item.some

\* next() returned a name after size_hint said (1, None).
C8_Witness ==
    /\ lastOp.kind = "next" /\ lastOp.hint = AtLeastOne /\ lastOp.item.some
    /\ Exhausted(xs[lastOp.slot])

\* C9: on the buffer of a list, next() yields the packed names in order and
\* without their terminators: the bytes from offset to the terminator, with
\* offset moved one past it; the names still to come are as many as the
\* terminators left, and no call panics.
C9_NextYieldsSegments ==
    /\ \A i \in Slots : pure[i] =>
           /\ NulCount(xs[i]) = Len(expect[i])
           /\ Exhausted(xs[i]) <=> expect[i] = <<>>
    /\ (lastOp.kind = "next" /\ pure[lastOp.slot]) =>
           LET pre == lastOp.pre
               now == xs[lastOp.slot]
           IN  /\ lastOp.item = lastOp.want
               /\ now.data = pre.data
               /\ IF lastOp.item.some
                  THEN /\ now.offset = pre.offset + Len(lastOp.item.name) + 1
                       /\ pre.data[now.offset] = NUL
                       /\ lastOp.item.name = SubSeq(pre.data, pre.offset + 1, now.offset - 1)
                       /\ \A k \in 1..Len(lastOp.item.name) : lastOp.item.name[k] # NUL
                  ELSE now = pre
    /\ (\A i \in Slots : pure[i]) => ~panicked

\* next() yielded an empty name as the last name of a list.
C9_Witness ==
    /\ lastOp.kind = "next" /\ pure[lastOp.slot] /\ ~cloned[lastOp.slot]
    /\ lastOp.item = Some(<<>>)
    /\ lastOp.pre.offset > 0
    /\ Exhausted(xs[lastOp.slot])

\* C10: 0 <= offset <= len(buffer) in every state, after any next(), clone()
\* and clone_from(); an exhausted iterator stays exhausted: next() returns
\* None and changes nothing.
C10_OffsetInBounds ==
    /\ \A i \in Slots : 0 <= xs[i].offset /\ xs[i].offset <= Len(xs[i].data)
    /\ ~panicked
    /\ (lastOp.kind = "next" /\ Exhausted(lastOp.pre)) =>
           /\ ~lastOp.item.some
           /\ xs[lastOp.slot] = lastOp.pre

\* next() ran on an exhausted iterator whose buffer clone_from had rebuilt.
C10_Witness ==
    /\ lastOp.kind = "next" /\ Exhausted(lastOp.pre)
    /\ ~pure[lastOp.slot]
    /\ Len(lastOp.pre.data) > 0

====
